---- MODULE Spec2Model ----
(***************************************************************************)
(* Model of attrs/ecomerce_example_attrs.py: the validated Product record, *)
(* the Order container and its aggregate computations.                     *)
(*                                                                         *)
(* Python objects live in heaps: `products` holds the Product instances,   *)
(* `lists` the list objects, `orders` the Order instances. An Order refers *)
(* to its list by identity (an index into `lists`) and a list holds        *)
(* references to Products (indices into `products`), as in Python.         *)
(*                                                                         *)
(* Numbers carry their Python type. A float is kept in hundredths          *)
(* (0.07 is PyFloat(7), 2.0 is PyFloat(200)); float("nan") is its own value.*)
(* Strings that are compared are sequences of characters.                  *)
(***************************************************************************)
EXTENDS Integers, Sequences, FiniteSets, TLC

VARIABLES
    products,   \* the Product instances, by identity
    lists,      \* the list objects, by identity: each a sequence of Product identities
    orders,     \* the Order instances: status, creation_date, products (a list identity)
    held,       \* the lists the caller built itself and still holds
    hist,       \* per Order: how it was built and which products add_item was given
    today,      \* what date.today() returns now
    call,       \* the operation called last, with its arguments
    raised,     \* what that call raised: "none", "ValueError" or "TypeError"
    ret         \* what that call returned

vars == <<products, lists, orders, held, hist, today, call, raised, ret>>

\* ----------------------------------------------------------------- bounds
\* objects built by Product(...), Order(...) and the caller's list literals
MaxObjects == 4
\* elements held by all lists together
MaxItems == 3
\* midnights that pass after the module was loaded
MaxDay == 1

\* ----------------------------------------------------------------- values
PyInt(k) == [t |-> "int", n |-> k]
PyBool(b) == [t |-> "bool", n |-> IF b THEN 1 ELSE 0]
PyFloat(h) == [t |-> "float", n |-> h]
NaN == [t |-> "nan", n |-> 0]
Str == [t |-> "str", n |-> 0]
None == [t |-> "None", n |-> 0]

\* isinstance(v, float) and isinstance(v, int); bool is a subclass of int
IsFloat(v) == v.t \in {"float", "nan"}
IsInt(v) == v.t \in {"int", "bool"}
IsNumber(v) == IsFloat(v) \/ IsInt(v)

\* the value of a number in hundredths
Scaled(v) == IF IsInt(v) THEN 100 * v.n ELSE v.n

\* Python's v <= 0, v > 0 and 0 < v < 1 on numbers: every comparison with nan is False
LeZero(v) == v.t # "nan" /\ Scaled(v) <= 0
GtZero(v) == v.t # "nan" /\ Scaled(v) > 0
InUnit(v) == v.t # "nan" /\ 0 < Scaled(v) /\ Scaled(v) < 100

\* a + b and a * b of Python numbers
Add(a, b) ==
    IF a.t = "nan" \/ b.t = "nan" THEN NaN
    ELSE IF IsInt(a) /\ IsInt(b) THEN PyInt(a.n + b.n)
    ELSE PyFloat(Scaled(a) + Scaled(b))

Mul(a, b) ==
    IF a.t = "nan" \/ b.t = "nan" THEN NaN
    ELSE IF IsInt(a) /\ IsInt(b) THEN PyInt(a.n * b.n)
    ELSE PyFloat((Scaled(a) * Scaled(b)) \div 100)

RECURSIVE sum(_)
\* the builtin sum(iterable): 0 + x1 + x2 + ..., left to right
sum(xs) == IF xs = <<>> THEN PyInt(0) ELSE Add(sum(SubSeq(xs, 1, Len(xs) - 1)), xs[Len(xs)])

\* ---------------------------------------------------------------- strings
\* the upper-case letters of the strings used, each with its lower-case letter
CasePairs == {<<"B", "b">>, <<"F", "f">>, <<"M", "m">>}

LowerChar(c) ==
    CASE c = "B" -> "b"
      [] c = "F" -> "f"
      [] c = "M" -> "m"
      [] OTHER -> c

\* str.lower
lower(s) == [i \in DOMAIN s |-> LowerChar(s[i])]

\* ---------------------------------------------------------------- Product
\* validators.instance_of(float) / validators.instance_of(int): TypeError on a mismatch
instance_of_float(v) == IF IsFloat(v) THEN "none" ELSE "TypeError"
instance_of_int(v) == IF IsInt(v) THEN "none" ELSE "TypeError"

positive_number_lt(v) ==
    IF ~IsNumber(v) THEN "TypeError"
    ELSE IF v.t # "nan" /\ Scaled(v) < 0 THEN "ValueError" ELSE "none"

\* positive_number: raise ValueError if value <= 0
positive_number(v) ==
    IF ~IsNumber(v) THEN "TypeError"
    ELSE IF LeZero(v) THEN "ValueError" ELSE "none"

\* percentage_value: raise ValueError if not 0 < value < 1
percentage_value(v) ==
    IF ~IsNumber(v) THEN "TypeError"
    ELSE IF ~InUnit(v) THEN "ValueError" ELSE "none"

and_swapped(first, second) == IF second # "none" THEN second ELSE first

\* a list of validators runs them in order; the first one that raises ends the run
and_(first, second) == IF first # "none" THEN first ELSE second

\* the validator attached to each field; name and category have none
validator(f, v) ==
    CASE f = "shipping_weight" -> and_(instance_of_float(v), positive_number(v))
      [] f = "unit_price" -> and_(instance_of_int(v), positive_number(v))
      [] f = "tax_percent" -> and_(instance_of_float(v), percentage_value(v))
      [] OTHER -> "none"

\* the instance built from the arguments of Product(...)
Product(a) ==
    [name |-> a[1], category |-> a[2], shipping_weight |-> a[3],
     unit_price |-> a[4], tax_percent |-> a[5]]

\* the generated __init__ assigns every field, then runs the validators in field order
Product_init(a) ==
    and_(validator("shipping_weight", a[3]),
         and_(validator("unit_price", a[4]), validator("tax_percent", a[5])))

Product_eq_exact(p, q) == <<p.name, p.category>> = <<q.name, q.category>>

\* the generated __eq__: name and category through str.lower, the rest eq=False
Product_eq(p, q) ==
    <<lower(p.name), lower(p.category)>> = <<lower(q.name), lower(q.category)>>

\* ------------------------------------------------------------------ Order
\* the sentinel of an argument that was not passed
NOTHING == 0 - 1

\* the day the module was loaded and the class body of Order was executed
LoadDay == 0

\* creation_date: date = date.today() is evaluated once, in the class body, and the
\* value it had then is the default of every later Order(...)
creation_date_default == LoadDay

shared_list(ls) == 1

\* field(factory=list): every call without products builds a new list object
factory_list(ls) == Len(ls) + 1

list_prepend(l, x) == <<x>> \o l

\* list.append
list_append(l, x) == Append(l, x)

\* the Product objects an Order holds, in order
items(o) == [i \in DOMAIN lists[orders[o].products] |-> products[lists[orders[o].products][i]]]

unit_prices(o) == [i \in DOMAIN items(o) |-> items(o)[i].unit_price]
taxes(o) == [i \in DOMAIN items(o) |-> Mul(items(o)[i].unit_price, items(o)[i].tax_percent)]
weights(o) == [i \in DOMAIN items(o) |-> items(o)[i].shipping_weight]

RECURSIVE distinct(_)
distinct(xs) ==
    IF xs = <<>> THEN <<>>
    ELSE LET r == distinct(SubSeq(xs, 1, Len(xs) - 1))
         IN  IF \E i \in DOMAIN r : r[i] = xs[Len(xs)] THEN r ELSE Append(r, xs[Len(xs)])

sub_total_distinct(o) ==
    LET ids == distinct(lists[orders[o].products])
    IN  sum([i \in DOMAIN ids |-> products[ids[i]].unit_price])

\* sum((p.unit_price for p in self.products))
calculate_sub_total(o) == sum(unit_prices(o))

\* sum((p.unit_price * p.tax_percent for p in self.products))
calculate_tax(o) == sum(taxes(o))

calculate_total_untaxed(o) == calculate_sub_total(o)

\* self.calculate_sub_total() + self.calculate_tax()
calculate_total(o) == Add(calculate_sub_total(o), calculate_tax(o))

\* sum((p.shipping_weight for p in self.products))
total_weight(o) == sum(weights(o))

\* ----------------------------------------------------------------- inputs
banana == <<"b", "a", "n", "a", "n", "a">>
mango == <<"m", "a", "n", "g", "o">>
Mango == <<"M", "a", "n", "g", "o">>
fruit == <<"f", "r", "u", "i", "t">>
Fruit == <<"F", "r", "u", "i", "t">>
fresh == <<"f", "r", "e", "s", "h">>

\* the three products of main()
BananaArgs == <<banana, fruit, PyFloat(50), PyInt(215), PyFloat(7)>>
MangoArgs == <<mango, fruit, PyFloat(200), PyInt(319), PyFloat(11)>>
ExpensiveMangoArgs == <<Mango, Fruit, PyFloat(400), PyInt(800), PyFloat(20)>>

\* a construction that fails: unit_price is 0
FreeBananaArgs == <<banana, fruit, PyFloat(50), PyInt(0), PyFloat(7)>>

\* arguments of Product(...) in the runs with orders
CatalogArgs == {BananaArgs, MangoArgs, FreeBananaArgs}

\* arguments of Product(...) in the runs that compare products
EqArgs ==
    {BananaArgs, MangoArgs, ExpensiveMangoArgs,
     <<Mango, fresh, PyFloat(200), PyInt(319), PyFloat(11)>>}

WeightArgs == {PyFloat(50), PyFloat(0), PyFloat(0 - 50), NaN, PyInt(0), Str}
PriceArgs == {PyInt(215), PyInt(0), PyBool(FALSE), PyFloat(21500), Str}
TaxArgs == {PyFloat(7), PyFloat(0), PyFloat(100), NaN, PyInt(1), Str}

\* arguments of Product(...) in the runs that construct products: every combination
\* of a shipping_weight, a unit_price and a tax_percent
ProductArgs ==
    {<<banana, fruit, w, u, x>> : w \in WeightArgs, u \in PriceArgs, x \in TaxArgs}

\* attribute assignments in the runs with orders
CatalogAssigns == {<<"unit_price", PyInt(800)>>, <<"unit_price", PyInt(0)>>}

\* attribute assignments in the runs that construct products
ProductAssigns ==
    {<<"shipping_weight", NaN>>, <<"shipping_weight", PyFloat(0)>>,
     <<"unit_price", PyInt(0 - 1)>>, <<"unit_price", Str>>,
     <<"tax_percent", PyFloat(100)>>, <<"tax_percent", PyInt(0)>>}

Statuses == {"openned", "paid"}

\* ------------------------------------------------------------------ state
Call(op, o, p, args) == [op |-> op, o |-> o, p |-> p, args |-> args]

\* the objects built so far, and the elements all lists hold together
RECURSIVE Items(_)
Items(ls) == IF ls = <<>> THEN 0 ELSE Len(ls[1]) + Items(Tail(ls))
Objects == Len(products) + Len(orders) + Cardinality(held)

Init ==
    /\ products = <<>>
    /\ lists = <<>>
    /\ orders = <<>>
    /\ held = {}
    /\ hist = <<>>
    /\ today = LoadDay
    /\ call = Call("import", 0, 0, <<>>)
    /\ raised = "none"
    /\ ret = None

\* Product(name, category, shipping_weight, unit_price, tax_percent)
NewProduct(a) ==
    /\ Objects < MaxObjects
    /\ raised' = Product_init(a)
    /\ products' = IF raised' = "none" THEN Append(products, Product(a)) ELSE products
    /\ call' = Call("Product", 0, 0, a)
    /\ ret' = None
    /\ UNCHANGED <<lists, orders, held, hist, today>>

SetAttr_unvalidated(p, f, v) ==
    /\ p \in DOMAIN products
    /\ raised' = "none"
    /\ products' = [products EXCEPT ![p][f] = v]
    /\ call' = Call("setattr", 0, p, <<f, v>>)
    /\ ret' = None
    /\ UNCHANGED <<lists, orders, held, hist, today>>

\* p.<f> = v on a Product: define() validates on assignment, and a value the
\* validator rejects is not stored
SetAttr(p, f, v) ==
    /\ p \in DOMAIN products
    /\ raised' = validator(f, v)
    /\ products' = IF raised' = "none" THEN [products EXCEPT ![p][f] = v] ELSE products
    /\ call' = Call("setattr", 0, p, <<f, v>>)
    /\ ret' = None
    /\ UNCHANGED <<lists, orders, held, hist, today>>

\* p == q
Compare(p, q) ==
    /\ p \in DOMAIN products
    /\ q \in DOMAIN products
    /\ ret' = PyBool(Product_eq(products[p], products[q]))
    /\ call' = Call("eq", 0, p, <<q>>)
    /\ raised' = "none"
    /\ UNCHANGED <<products, lists, orders, held, hist, today>>

\* Order(status=st, creation_date=d, products=l); d and l may be NOTHING. A list that
\* is passed is stored as it is, by reference
NewOrder(st, d, l) ==
    /\ Objects < MaxObjects
    /\ l = NOTHING \/ l \in held
    /\ LET id == IF l = NOTHING THEN factory_list(lists) ELSE l
       IN  /\ lists' = IF id > Len(lists) THEN Append(lists, <<>>) ELSE lists
           /\ orders' = Append(orders,
                  [status |-> st,
                   creation_date |-> IF d = NOTHING THEN creation_date_default ELSE d,
                   products |-> id])
    /\ hist' = Append(hist, [date_omitted |-> d = NOTHING, products_omitted |-> l = NOTHING,
                             built_on |-> today, added |-> <<>>])
    /\ call' = Call("Order", Len(orders) + 1, 0, <<d, l>>)
    /\ raised' = "none"
    /\ ret' = None
    /\ UNCHANGED <<products, held, today>>

\* order.add_item(product)
add_item(o, p) ==
    /\ o \in DOMAIN orders
    /\ p \in DOMAIN products
    /\ Items(lists) < MaxItems
    /\ lists' = [lists EXCEPT ![orders[o].products] = list_append(@, p)]
    /\ hist' = [hist EXCEPT ![o].added = Append(@, p)]
    /\ call' = Call("add_item", o, p, <<>>)
    /\ raised' = "none"
    /\ ret' = None
    /\ UNCHANGED <<products, orders, held, today>>

\* the four aggregates of an Order
Aggregate(op, o) ==
    /\ o \in DOMAIN orders
    /\ ret' = CASE op = "calculate_sub_total" -> calculate_sub_total(o)
                [] op = "calculate_tax" -> calculate_tax(o)
                [] op = "calculate_total" -> calculate_total(o)
                [] op = "total_weight" -> total_weight(o)
    /\ call' = Call(op, o, 0, <<>>)
    /\ raised' = "none"
    /\ UNCHANGED <<products, lists, orders, held, hist, today>>

Aggregates == {"calculate_sub_total", "calculate_tax", "calculate_total", "total_weight"}

\* the caller builds a list of its own, empty or with one product in it
CallerNewList(ps) ==
    /\ Objects < MaxObjects
    /\ Items(lists) + Len(ps) <= MaxItems
    /\ \A i \in DOMAIN ps : ps[i] \in DOMAIN products
    /\ lists' = Append(lists, ps)
    /\ held' = held \cup {Len(lists) + 1}
    /\ call' = Call("list", 0, 0, ps)
    /\ raised' = "none"
    /\ ret' = None
    /\ UNCHANGED <<products, orders, hist, today>>

\* the caller appends to a list it holds, which it may have passed to Order(...)
CallerAppend(l, p) ==
    /\ l \in held
    /\ p \in DOMAIN products
    /\ Items(lists) < MaxItems
    /\ lists' = [lists EXCEPT ![l] = Append(@, p)]
    /\ call' = Call("append", 0, p, <<l>>)
    /\ raised' = "none"
    /\ ret' = None
    /\ UNCHANGED <<products, orders, held, hist, today>>

\* midnight passes: date.today() returns the next day from now on
Tick ==
    /\ today < MaxDay
    /\ today' = today + 1
    /\ call' = Call("midnight", 0, 0, <<>>)
    /\ raised' = "none"
    /\ ret' = None
    /\ UNCHANGED <<products, lists, orders, held, hist>>

Pids == 1..MaxObjects
Oids == 1..MaxObjects
Lids == 1..MaxObjects
OneList == {<<>>} \cup {<<p>> : p \in Pids}

\* every operation, on the inputs of the runs with orders
Next ==
    \/ \E a \in CatalogArgs : NewProduct(a)
    \/ \E p \in Pids, fv \in CatalogAssigns : SetAttr(p, fv[1], fv[2])
    \/ \E p \in Pids, q \in Pids : Compare(p, q)
    \/ \E st \in Statuses, d \in {NOTHING, today}, l \in {NOTHING} \cup Lids : NewOrder(st, d, l)
    \/ \E o \in Oids, p \in Pids : add_item(o, p)
    \/ \E op \in Aggregates, o \in Oids : Aggregate(op, o)
    \/ \E ps \in OneList : CallerNewList(ps)
    \/ \E l \in Lids, p \in Pids : CallerAppend(l, p)
    \/ Tick

Spec == Init /\ [][Next]_vars

\* constructing and assigning products, over every argument combination
NextProduct ==
    \/ \E a \in ProductArgs : NewProduct(a)
    \/ \E p \in Pids, fv \in ProductAssigns : SetAttr(p, fv[1], fv[2])

SpecProduct == Init /\ [][NextProduct]_vars

\* constructing and comparing products
NextEq ==
    \/ \E a \in EqArgs : NewProduct(a)
    \/ \E p \in Pids, q \in Pids : Compare(p, q)

SpecEq == Init /\ [][NextEq]_vars

\* orders and the lists they hold: built with and without a list of the caller's
NextOrders ==
    \/ \E a \in {BananaArgs, MangoArgs} : NewProduct(a)
    \/ \E st \in Statuses, l \in {NOTHING} \cup Lids : NewOrder(st, NOTHING, l)
    \/ \E o \in Oids, p \in Pids : add_item(o, p)
    \/ \E ps \in OneList : CallerNewList(ps)
    \/ \E l \in Lids, p \in Pids : CallerAppend(l, p)

SpecOrders == Init /\ [][NextOrders]_vars

\* orders built on different days, with and without a creation_date
NextDates ==
    \/ \E st \in Statuses, d \in {NOTHING, today} : NewOrder(st, d, NOTHING)
    \/ Tick

SpecDates == Init /\ [][NextDates]_vars

\* the aggregates of an order that is filled one product at a time
NextTotals ==
    \/ \E a \in CatalogArgs : NewProduct(a)
    \/ NewOrder("openned", NOTHING, NOTHING)
    \/ \E o \in Oids, p \in Pids : add_item(o, p)
    \/ \E op \in Aggregates, o \in Oids : Aggregate(op, o)

SpecTotals == Init /\ [][NextTotals]_vars

\* products that are assigned to while orders hold them
NextAssign ==
    \/ \E a \in {BananaArgs, FreeBananaArgs} : NewProduct(a)
    \/ \E p \in Pids, fv \in CatalogAssigns : SetAttr(p, fv[1], fv[2])
    \/ NewOrder("openned", NOTHING, NOTHING)
    \/ \E o \in Oids, p \in Pids : add_item(o, p)
    \/ \E op \in Aggregates, o \in Oids : Aggregate(op, o)

SpecAssign == Init /\ [][NextAssign]_vars

\* ----------------------------------------------------------------- claims
\* the list object an Order holds, and whether the Order was built without products
held_by(o) == lists[orders[o].products]
built_empty(o) == hist[o].products_omitted

\* C1: every Product that exists has shipping_weight > 0, unit_price > 0 and
\* 0 < tax_percent < 1.
C1_BoundsHold ==
    \A p \in DOMAIN products :
        /\ GtZero(products[p].shipping_weight)
        /\ GtZero(products[p].unit_price)
        /\ InUnit(products[p].tax_percent)

\* the arguments break a bound: shipping_weight <= 0, unit_price <= 0, or a
\* tax_percent that is a number outside the open interval (0, 1)
BreaksBound(a) ==
    \/ IsNumber(a[3]) /\ LeZero(a[3])
    \/ IsNumber(a[4]) /\ LeZero(a[4])
    \/ IsNumber(a[5]) /\ ~InUnit(a[5])
DeclaredTypes(a) == IsFloat(a[3]) /\ IsInt(a[4]) /\ IsFloat(a[5])

\* C2 as stated: a construction whose arguments break a bound fails with ValueError,
\* whatever the other arguments are.
C2_AlwaysValueError ==
    (call.op = "Product" /\ BreaksBound(call.args)) => raised = "ValueError"

\* C2 as amended: a construction whose arguments break a bound fails; with ValueError
\* when the three numeric arguments have their declared types (float, int, float),
\* and with TypeError only when one of them has not.
C2_FailsValueErrorWhenTyped ==
    (call.op = "Product" /\ BreaksBound(call.args)) =>
        /\ raised \in {"ValueError", "TypeError"}
        /\ DeclaredTypes(call.args) => raised = "ValueError"

C2_Witness ==
    /\ call.op = "Product"
    /\ call.args[3] = PyFloat(50) /\ call.args[4] = PyInt(215) /\ call.args[5] = PyFloat(100)
    /\ raised = "ValueError"

\* C3 as stated: ValueError is the only error a construction produces.
C3_OnlyValueError == call.op = "Product" => raised \in {"none", "ValueError"}

\* the type check and the bound check of the numeric field at position i
TypeOk(i, v) == IF i = 4 THEN IsInt(v) ELSE IsFloat(v)
BoundOk(i, v) == IF i = 5 THEN InUnit(v) ELSE ~LeZero(v)
FirstFailureIsType(a) ==
    \E i \in 3..5 :
        /\ ~TypeOk(i, a[i])
        /\ \A j \in 3..(i - 1) : TypeOk(j, a[j]) /\ BoundOk(j, a[j])

\* C3 as amended: a construction succeeds, or fails with TypeError when the first
\* check that fails (fields in order, type before bound) is a type check, or fails
\* with ValueError when it is a bound check.
C3_TwoErrorKinds ==
    call.op = "Product" =>
        /\ raised \in {"none", "ValueError", "TypeError"}
        /\ raised = "TypeError" <=> FirstFailureIsType(call.args)
        /\ raised = "none" <=> \A i \in 3..5 : TypeOk(i, call.args[i]) /\ BoundOk(i, call.args[i])

C3_Witness ==
    /\ call.op = "Product"
    /\ call.args[3] = PyInt(0)
    /\ raised = "TypeError"

\* C4 as stated: no operation changes a field of a Product that exists.
C4_FieldsNeverChange ==
    [][\A p \in DOMAIN products : products'[p] = products[p]]_vars

\* C4 as amended: add_item and the aggregates change no field of a Product; the one
\* operation that does is an attribute assignment, which stores the value in the
\* assigned field when the field's validator accepts it.
C4_OnlyAssignmentChanges ==
    [][\A p \in DOMAIN products :
        products'[p] # products[p] =>
            /\ call'.op = "setattr" /\ call'.p = p
            /\ validator(call'.args[1], call'.args[2]) = "none"
            /\ products'[p] = [products[p] EXCEPT ![call'.args[1]] = call'.args[2]]]_vars

C4_Witness ==
    /\ call.op = "calculate_total"
    /\ \E i \in DOMAIN held_by(call.o) :
          products[held_by(call.o)[i]] = [Product(BananaArgs) EXCEPT !.unit_price = PyInt(800)]

\* C5 as stated: a change made to a list of the caller's, or add_item on another
\* Order, changes no Order's product sequence.
C5_NoOutsideChange ==
    [][\A o \in DOMAIN orders :
        (call'.op = "append" \/ (call'.op = "add_item" /\ call'.o # o)) =>
            lists'[orders[o].products] = held_by(o)]_vars

\* C5 as amended: an Order built without products holds a list that no other Order
\* and no caller holds, and only add_item on that Order changes its product sequence.
C5_DefaultListOwned ==
    /\ [](\A o \in DOMAIN orders :
            built_empty(o) =>
                /\ orders[o].products \notin held
                /\ \A o2 \in DOMAIN orders : o2 # o => orders[o2].products # orders[o].products)
    /\ [][\A o \in DOMAIN orders :
            (built_empty(o) /\ ~(call'.op = "add_item" /\ call'.o = o)) =>
                lists'[orders[o].products] = held_by(o)]_vars

C5_Witness ==
    /\ call.op = "add_item"
    /\ \E o \in DOMAIN orders, o2 \in DOMAIN orders :
          /\ built_empty(o) /\ built_empty(o2)
          /\ call.o = o /\ held_by(o) # <<>> /\ held_by(o2) = <<>>

\* C6: an Order built without a creation_date has the date of the day it was built.
C6_DefaultIsBuildDay ==
    \A o \in DOMAIN orders :
        hist[o].date_omitted => orders[o].creation_date = hist[o].built_on

\* C7: an Order built without products holds exactly the products passed to add_item,
\* in call order; and every add_item, on any Order of any status, puts its product
\* after the elements the Order held, which stay as they were.
C7_AppendOnly ==
    /\ [](\A o \in DOMAIN orders : built_empty(o) => held_by(o) = hist[o].added)
    /\ [][\A o \in DOMAIN orders :
            (call'.op = "add_item" /\ call'.o = o) =>
                lists'[orders[o].products] = Append(held_by(o), call'.p)]_vars

C7_Witness ==
    \E o \in DOMAIN orders :
        /\ built_empty(o) /\ orders[o].status = "paid"
        /\ Len(held_by(o)) = 3
        /\ held_by(o)[1] = held_by(o)[3] /\ held_by(o)[1] # held_by(o)[2]

\* two strings are the same up to the case of their letters
SameIgnoringCase(s, u) ==
    /\ Len(s) = Len(u)
    /\ \A i \in DOMAIN s :
          s[i] = u[i] \/ <<s[i], u[i]>> \in CasePairs \/ <<u[i], s[i]>> \in CasePairs

Equal(p, q) == Product_eq(products[p], products[q])

\* C8: two Products are equal exactly when name and category are the same up to case,
\* whatever the numeric fields are; equality is reflexive, symmetric and transitive.
C8_Equality ==
    /\ \A p, q \in DOMAIN products :
          Equal(p, q) <=> /\ SameIgnoringCase(products[p].name, products[q].name)
                          /\ SameIgnoringCase(products[p].category, products[q].category)
    /\ \A p \in DOMAIN products : Equal(p, p)
    /\ \A p, q \in DOMAIN products : Equal(p, q) => Equal(q, p)
    /\ \A p, q \in DOMAIN products :
          Equal(p, q) => \A r \in DOMAIN products : Equal(q, r) => Equal(p, r)
    /\ call.op = "eq" =>
          ret = PyBool(/\ SameIgnoringCase(products[call.p].name, products[call.args[1]].name)
                       /\ SameIgnoringCase(products[call.p].category,
                                           products[call.args[1]].category))

C8_Witness ==
    /\ call.op = "eq" /\ ret = PyBool(TRUE)
    /\ products[call.p] = Product(MangoArgs)
    /\ products[call.args[1]] = Product(ExpensiveMangoArgs)

\* how often product p occurs in the list of order o
Occurrences(o, p) == Cardinality({i \in DOMAIN held_by(o) : held_by(o)[i] = p})

RECURSIVE Total(_, _, _)
\* the sum over the products p in ps of their occurrences in order o times w[p]
Total(o, ps, w) ==
    IF ps = {} THEN 0
    ELSE LET p == CHOOSE x \in ps : TRUE
         IN  Occurrences(o, p) * w[p] + Total(o, ps \ {p}, w)

Price == [p \in DOMAIN products |-> products[p].unit_price.n]
\* in hundredths: the tax of a product, and its price with tax
TaxOf == [p \in DOMAIN products |-> products[p].unit_price.n * products[p].tax_percent.n]
PriceWithTax == [p \in DOMAIN products |-> 100 * Price[p] + TaxOf[p]]

\* C9: calculate_sub_total() is the integer sum of unit_price over the held products,
\* each occurrence counted, and 0 for an empty Order.
C9_SubTotal ==
    call.op = "calculate_sub_total" =>
        /\ ret = PyInt(Total(call.o, DOMAIN products, Price))
        /\ held_by(call.o) = <<>> => ret = PyInt(0)

C9_Witness ==
    /\ call.op = "calculate_sub_total" /\ ret = PyInt(534)
    /\ Len(held_by(call.o)) = 2

\* C10: calculate_total() is calculate_sub_total() + calculate_tax(), the tax being the
\* sum of unit_price * tax_percent over the held products; no aggregate changes the
\* Order, its list or its products.
C10_Total ==
    /\ [](/\ call.op = "calculate_tax" =>
               Scaled(ret) = Total(call.o, DOMAIN products, TaxOf)
          /\ call.op = "calculate_total" =>
               /\ Scaled(ret) = Total(call.o, DOMAIN products, PriceWithTax)
               /\ ret = Add(calculate_sub_total(call.o), calculate_tax(call.o)))
    /\ [][call'.op \in Aggregates => UNCHANGED <<orders, lists, products>>]_vars

C10_Witness ==
    /\ call.op = "calculate_total" /\ ret = PyFloat(58414)
    /\ Len(held_by(call.o)) = 2

====
